---- MODULE Spec2Model ----
(***************************************************************************)
(* tmsadm: command line administration of the TMS Server's sqlite database *)
(* (src/main.rs).  One run of the program is modelled as a state machine:  *)
(* the parsed arguments and the process environment are fixed at start,    *)
(* and the run steps through check_db_file, the process_* command          *)
(* processors, confirm_delete and run_command.                             *)
(*                                                                         *)
(* Text (String, &str, Vec<u8>) is a sequence of one-character strings.    *)
(* A path is the sequence of its components, the root being "/".           *)
(***************************************************************************)
EXTENDS Integers, Sequences, FiniteSets, TLC

VARIABLES args, env, pc, trace, exit_code, panic_msg, resolved

vars == <<args, env, pc, trace, exit_code, panic_msg, resolved>>

(***************************************************************************)
(*                              Constants                                  *)
(***************************************************************************)
SQLITE3 == <<"s","q","l","i","t","e","3">>

LIST_PUBKEY == <<"S","E","L","E","C","T"," ","*"," ","F","R","O","M"," ","p","u","b","k","e","y","s"," ">>
LIST_CLIENT == <<"S","E","L","E","C","T"," ","*"," ","F","R","O","M"," ","c","l","i","e","n","t","s"," ">>
LIST_DELEGATION == <<"S","E","L","E","C","T"," ","*"," ","F","R","O","M"," ","d","e","l","e","g","a","t","i","o","n","s"," ">>
DELETE_PUBKEY == <<"D","E","L","E","T","E"," ","F","R","O","M"," ","p","u","b","k","e","y","s"," ">>
DELETE_CLIENT == <<"D","E","L","E","T","E"," ","F","R","O","M"," ","c","l","i","e","n","t","s"," ">>
DELETE_DELEGATION == <<"D","E","L","E","T","E"," ","F","R","O","M"," ","d","e","l","e","g","a","t","i","o","n","s"," ">>

\* The task labels the command processors hand to run_command.
TaskListPubkeys == <<"L","I","S","T"," ","p","u","b","k","e","y","s">>
TaskListClients == <<"L","I","S","T"," ","c","l","i","e","n","t","s">>
TaskListDelegations == <<"L","I","S","T"," ","d","e","l","e","g","a","t","i","o","n","s">>
TaskDeletePubkeys == <<"D","E","L","E","T","E"," ","p","u","b","k","e","y","s">>
TaskDeleteClients == <<"D","E","L","E","T","E"," ","c","l","i","e","n","t","s">>
TaskDeleteDelegations == <<"D","E","L","E","T","E"," ","d","e","l","e","g","a","t","i","o","n","s">>

\* String literals of the source.
LimitKeyword == <<" ","L","I","M","I","T"," ">>
FlagJson == <<"-","j","s","o","n">>
FlagHeader == <<"-","h","e","a","d","e","r">>
FlagEcho == <<"-","e","c","h","o">>
ColonSpace == <<":"," ">>
EmsgHead == <<"U","n","k","n","o","w","n"," ","e","r","r","o","r"," ","c","o","n","d","i","t","i","o","n"," ","r","e","t","u","r","n","e","d"," ","b","y"," ","c","o","m","m","a","n","d",":"," ">>
EmsgMid == <<" ","w","i","t","h"," ","e","x","i","t"," ","s","t","a","t","u","s",":"," ">>
DbMissingHead == <<"D","a","t","a","b","a","s","e"," ","f","i","l","e"," ","d","o","e","s"," ","n","o","t"," ","e","x","i","s","t",":"," ">>
ReadErrHead == <<"e","r","r","o","r",":"," ">>

\* --dbpath default.
DefaultDbPath == <<"~", ".tms", "database", "tms.db">>

\* The process status of a run that panicked (a run that returns from main
\* exits with 0).
PanicExit == 101

\* limit is an i32.
I32Max == 2147483647
I32Min == -I32Max - 1

(***************************************************************************)
(*                       Bounds and input sets                             *)
(***************************************************************************)
MaxLimit == 11
MaxExitCode == 2

Operations == {"LIST", "DELETE"}
Resources == {"pubkey", "client", "delegation"}

Limits == (-1..MaxLimit) \cup {I32Max, I32Min}

Some(v) == [some |-> TRUE, val |-> v]
None == [some |-> FALSE, val |-> <<>>]

Where1 == <<"W","H","E","R","E"," ","h","o","s","t"," ","="," ","'","x","'">>
Where2 == <<"W","H","E","R","E"," ","i","d"," ",">"," ","7"," ","L","I","M","I","T"," ","3">>
WhereClauses == {None, Some(Where1), Some(Where2)}

\* A byte sequence that is not UTF-8, and a path component that is not Unicode.
BadByte == "?FF"
ChildErrText == <<"E","r","r","o","r",":"," ","n","o"," ","s","u","c","h"," ","t","a","b","l","e">>
ChildStderr == {<<>>, ChildErrText, <<"E", BadByte>>}

\* Messages of std::io::Error, each taken as one piece of text.
LaunchErrors == {<<"No such file or directory (os error 2)">>}
ReadErrors == {<<"stream did not contain valid UTF-8">>}

\* What a child process can do: it cannot be started, or it runs, writes
\* to its standard error and exits with a code.
ChildOutcomes ==
    {[kind |-> "launch_err", err |-> e, code |-> 0, wrote |-> <<>>] : e \in LaunchErrors}
    \cup {[kind |-> "exit", err |-> <<>>, code |-> 0, wrote |-> <<>>]}
    \cup {[kind |-> "exit", err |-> <<>>, code |-> c, wrote |-> w] :
             c \in 1..MaxExitCode, w \in ChildStderr}

\* The lines read_line can deliver (the line end included; the empty text is
\* end of input).
Responses ==
    { <<"y","\n">>, <<"Y","\n">>, <<"y","e","s","\n">>, <<"Y","e","s","\n">>,
      <<"n","\n">>, <<"n","o","\n">>, <<"\n">>, <<>>,
      <<" ","y","\n">>, <<"\t","Y","e","s","\n">>, <<"n","y","\n">> }

(***************************************************************************)
(*                           Text helpers                                  *)
(***************************************************************************)
UpperAlphabet == <<"A","B","C","D","E","F","G","H","I","J","K","L","M","N","O","P","Q","R","S","T","U","V","W","X","Y","Z">>
LowerAlphabet == <<"a","b","c","d","e","f","g","h","i","j","k","l","m","n","o","p","q","r","s","t","u","v","w","x","y","z">>

\* char::to_lowercase on the characters of the model.
LowerChar(c) ==
    IF \E i \in 1..Len(UpperAlphabet) : UpperAlphabet[i] = c
    THEN LowerAlphabet[CHOOSE i \in 1..Len(UpperAlphabet) : UpperAlphabet[i] = c]
    ELSE c

\* str::to_lowercase
to_lowercase(s) == [i \in 1..Len(s) |-> LowerChar(s[i])]

\* str::starts_with(char)
starts_with(s, c) == Len(s) > 0 /\ s[1] = c

DigitChars == <<"0","1","2","3","4","5","6","7","8","9">>

RECURSIVE Digits(_)
Digits(n) ==
    IF n < 10 THEN <<DigitChars[n + 1]>>
    ELSE Digits(n \div 10) \o <<DigitChars[(n % 10) + 1]>>

\* The decimal digits of the magnitude of n <= 0 (the magnitude of the least
\* i32 is not an i32).
RECURSIVE NegDigits(_)
NegDigits(n) ==
    IF n > -10 THEN <<DigitChars[1 - n]>>
    ELSE LET r == (10 - (n % 10)) % 10
         IN  NegDigits((n + r) \div 10) \o <<DigitChars[r + 1]>>

\* i32::to_string
to_string(n) == IF n < 0 THEN <<"-">> \o NegDigits(n) ELSE Digits(n)

\* String::from_utf8: Ok exactly when every byte sequence is well formed.
from_utf8_ok(bytes) == \A i \in 1..Len(bytes) : bytes[i] # BadByte

(***************************************************************************)
(*                           Path Resolver                                 *)
(***************************************************************************)
Ok(v) == [ok |-> TRUE, val |-> v]
Err == [ok |-> FALSE, val |-> <<>>]

\* The environment variables a path of the model can refer to.
VarNames == {"$DBDIR", "$UNDEF"}

IsAbsolute(p) == Len(p) > 0 /\ p[1] = "/"

\* shellexpand::full on one component: a leading ~ becomes the home
\* directory when there is one, and stays otherwise; $VAR becomes the value
\* of VAR, and is an error when VAR is not defined.
ExpandComponent(c, i, e) ==
    IF i = 1 /\ c = "~"
    THEN (IF e.home.some THEN Ok(e.home.val) ELSE Ok(<<c>>))
    ELSE IF c \in VarNames
    THEN (IF e.vars[c].some
          THEN Ok(IF i > 1 /\ IsAbsolute(e.vars[c].val)
                  THEN Tail(e.vars[c].val) ELSE e.vars[c].val)
          ELSE Err)
    ELSE Ok(<<c>>)

RECURSIVE ExpandFrom(_, _, _)
ExpandFrom(p, i, e) ==
    IF i > Len(p) THEN <<>>
    ELSE ExpandComponent(p[i], i, e).val \o ExpandFrom(p, i + 1, e)

\* shellexpand::full
shellexpand_full(p, e) ==
    IF \A i \in 1..Len(p) : ExpandComponent(p[i], i, e).ok
    THEN Ok(ExpandFrom(p, 1, e))
    ELSE Err

\* Removal of "." and ".." components; ".." at the root stays at the root.
RECURSIVE NormalizeFrom(_, _, _)
NormalizeFrom(p, i, acc) ==
    IF i > Len(p) THEN acc
    ELSE IF p[i] = "." THEN NormalizeFrom(p, i + 1, acc)
    ELSE IF p[i] = ".."
    THEN NormalizeFrom(p, i + 1,
             IF Len(acc) > 1 THEN SubSeq(acc, 1, Len(acc) - 1) ELSE acc)
    ELSE NormalizeFrom(p, i + 1, Append(acc, p[i]))

\* Path::absolutize: a relative path is joined to the current directory,
\* which is an error when the current directory cannot be read.
absolutize(p, e) ==
    IF IsAbsolute(p) THEN Ok(NormalizeFrom(p, 2, <<"/">>))
    ELSE IF e.cwd.ok THEN Ok(NormalizeFrom(e.cwd.val \o p, 2, <<"/">>))
    ELSE Err

\* Path::to_str: None when the path is not valid Unicode.
to_str_some(p) == \A i \in 1..Len(p) : p[i] # BadByte

\* A resolver that gives back the expanded path when it cannot be made
\* absolute.
get_absolute_path_keeps_expanded(path, e) ==
    LET s == shellexpand_full(path, e) IN
    IF ~s.ok THEN path
    ELSE LET p1 == absolutize(s.val, e) IN
         IF ~p1.ok THEN s.val
         ELSE IF ~to_str_some(p1.val) THEN path
         ELSE p1.val

get_absolute_path(path, e) ==
    LET s == shellexpand_full(path, e) IN
    IF ~s.ok THEN path
    ELSE LET p1 == absolutize(s.val, e) IN
         IF ~p1.ok THEN path
         ELSE IF ~to_str_some(p1.val) THEN path
         ELSE p1.val

\* Path::is_file
is_file(p, e) == p \in e.files

\* The text of a path: its components joined by "/".
RECURSIVE PathText(_, _)
PathText(p, i) ==
    IF i > Len(p) THEN <<>>
    ELSE IF i = Len(p) \/ p[i] = "/" THEN <<p[i]>> \o PathText(p, i + 1)
    ELSE <<p[i], "/">> \o PathText(p, i + 1)

(***************************************************************************)
(*                        SQL Statement Builder                            *)
(***************************************************************************)
\* A builder that appends the LIMIT clause for a limit of 0 as well.
make_sql_limit_zero(sql_stmt, a) ==
    LET sql0 == sql_stmt
        sql1 == IF a.sqlwhere.some THEN sql0 \o a.sqlwhere.val ELSE sql0
    IN  IF a.limit >= 0 THEN sql1 \o LimitKeyword \o to_string(a.limit) ELSE sql1

\* make_sqlite3_cmd, the SQL text.
make_sql(sql_stmt, a) ==
    LET sql0 == sql_stmt
        sql1 == IF a.sqlwhere.some THEN sql0 \o a.sqlwhere.val ELSE sql0
    IN  IF a.limit > 0 THEN sql1 \o LimitKeyword \o to_string(a.limit) ELSE sql1

\* Options given in the order -json, -echo, -header.
make_flags_swapped(a) ==
    (IF ~a.json_off THEN <<FlagJson>> ELSE <<>>)
    \o (IF ~a.echo_off THEN <<FlagEcho>> ELSE <<>>)
    \o (IF ~a.header_off THEN <<FlagHeader>> ELSE <<>>)

\* make_sqlite3_cmd, the options selected by the user.
make_flags(a) ==
    (IF ~a.json_off THEN <<FlagJson>> ELSE <<>>)
    \o (IF ~a.header_off THEN <<FlagHeader>> ELSE <<>>)
    \o (IF ~a.echo_off THEN <<FlagEcho>> ELSE <<>>)

\* make_sqlite3_cmd: the program followed by its arguments.
make_sqlite3_cmd(sql_stmt, a, e) ==
    <<SQLITE3>> \o make_flags(a)
    \o <<get_absolute_path(a.dbpath, e)>> \o <<make_sql(sql_stmt, a)>>

(***************************************************************************)
(*                       External Process Runner                           *)
(***************************************************************************)
\* run_command leaves the child's stdout and stderr on the parent's streams:
\* the two Stdio::piped() lines are commented out.
StderrPiped == FALSE

\* Command::execute_output: the Output of a child that ran, whose stderr
\* holds what the child wrote only when stderr is piped.
execute_output(o) ==
    [ok |-> o.kind = "exit", err |-> o.err, status |-> o.code,
     stderr |-> IF StderrPiped THEN o.wrote ELSE <<>>]

\* ExitStatus::to_string
status_to_string(code) ==
    <<"e","x","i","t"," ","s","t","a","t","u","s",":"," ">> \o to_string(code)

run_command_emsg(command, status) ==
    EmsgHead \o command[1] \o EmsgMid \o status_to_string(status)

\* A runner that takes every child that ran for a success.
run_command_ignores_status(command, task, o) ==
    LET out == execute_output(o) IN
    IF out.ok
    THEN [panic |-> FALSE, msg |-> <<>>]
    ELSE [panic |-> TRUE, msg |-> task \o ColonSpace \o out.err]

\* run_command: whether it panics, and with which message.
run_command(command, task, o) ==
    LET out == execute_output(o) IN
    IF out.ok
    THEN IF out.status = 0
         THEN [panic |-> FALSE, msg |-> <<>>]
         ELSE [panic |-> TRUE,
               msg |-> task \o ColonSpace \o
                       (IF from_utf8_ok(out.stderr) THEN out.stderr
                        ELSE run_command_emsg(command, out.status))]
    ELSE [panic |-> TRUE, msg |-> task \o ColonSpace \o out.err]

(***************************************************************************)
(*                          Confirmation Gate                              *)
(***************************************************************************)
\* A gate that proceeds unless the answer starts with n, and one that
\* does not fold the case.
confirm_delete_unless_no(input) == ~starts_with(to_lowercase(input), "n")
confirm_delete_case_sensitive(input) == starts_with(input, "y")

\* confirm_delete, the decision on a line that was read.
confirm_delete(input) == starts_with(to_lowercase(input), "y")

\* A processor that ignores --confirm-delete-off.
confirm_needed_always(a) == TRUE

\* process_delete_*: the LIST and the prompt come first unless turned off.
confirm_needed(a) == ~a.confirm_delete_off

(***************************************************************************)
(*                     Arguments and environment                           *)
(***************************************************************************)
HomeDir == <<"/", "home", "tms">>
WorkDir == <<"/", "srv", "tms">>
HomeDb == <<"/", "home", "tms", ".tms", "database", "tms.db">>
WorkDb == <<"/", "srv", "tms", "tms.db">>

\* TmsadmArgs
TmsadmArgs(paths) ==
    [operation : Operations, resource : Resources, dbpath : paths,
     json_off : BOOLEAN, echo_off : BOOLEAN, header_off : BOOLEAN,
     limit : Limits, confirm_delete_off : BOOLEAN, sqlwhere : WhereClauses]

\* The environment of a run: the home directory, the environment variables,
\* the current directory and the regular files that exist.
RunEnvs ==
    [home : {Some(HomeDir)},
     vars : {[v \in VarNames |-> None]},
     cwd : {Ok(WorkDir)},
     files : {{}, {HomeDb}, {HomeDb, WorkDb}}]

RunPaths == {DefaultDbPath, <<"tms.db">>}

(***************************************************************************)
(*                            Main Processing                              *)
(***************************************************************************)
Init ==
    /\ args \in TmsadmArgs(RunPaths)
    /\ env \in RunEnvs
    /\ pc = "main"
    /\ trace = <<>>
    /\ exit_code = <<>>
    /\ panic_msg = <<>>
    /\ resolved = <<>>

Panic(msg) ==
    /\ pc' = "panicked"
    /\ exit_code' = <<PanicExit>>
    /\ panic_msg' = msg

Return ==
    /\ pc' = "done"
    /\ exit_code' = <<0>>
    /\ panic_msg' = panic_msg

\* A main that goes on without the database file.
check_db_file_unchecked ==
    /\ pc = "main"
    /\ resolved' = get_absolute_path(args.dbpath, env)
    /\ pc' = "dispatch"
    /\ UNCHANGED <<args, env, trace, exit_code, panic_msg>>

\* main, up to the choice of the command processor: check_db_file.
check_db_file ==
    /\ pc = "main"
    /\ resolved' = get_absolute_path(args.dbpath, env)
    /\ IF ~is_file(get_absolute_path(args.dbpath, env), env)
       THEN Panic(DbMissingHead \o PathText(get_absolute_path(args.dbpath, env), 1))
       ELSE /\ pc' = "dispatch"
            /\ UNCHANGED <<exit_code, panic_msg>>
    /\ UNCHANGED <<args, env, trace>>

\* make_sqlite3_cmd followed by run_command, continuing at next when the
\* command succeeded.
RunSql(sql_stmt, task, next) ==
    \E o \in ChildOutcomes :
        LET cmd == make_sqlite3_cmd(sql_stmt, args, env)
            r == run_command(cmd, task, o)
        IN  /\ trace' = Append(trace, [ev |-> "exec", argv |-> cmd, task |-> task, out |-> o])
            /\ IF r.panic THEN Panic(r.msg)
               ELSE IF next = "done" THEN Return
               ELSE /\ pc' = next
                    /\ UNCHANGED <<exit_code, panic_msg>>
            /\ UNCHANGED <<args, env, resolved>>

Dispatched(op, res) ==
    /\ pc = "dispatch"
    /\ args.operation = op
    /\ args.resource = res

process_list_pubkey ==
    /\ Dispatched("LIST", "pubkey")
    /\ RunSql(LIST_PUBKEY, TaskListPubkeys, "done")

process_list_client ==
    /\ Dispatched("LIST", "client")
    /\ RunSql(LIST_CLIENT, TaskListClients, "done")

process_list_delegation ==
    /\ Dispatched("LIST", "delegation")
    /\ RunSql(LIST_DELEGATION, TaskListDelegations, "done")

\* process_delete_*, first part: show what could be deleted.
process_delete_pubkey_list ==
    /\ Dispatched("DELETE", "pubkey")
    /\ confirm_needed(args)
    /\ RunSql(LIST_PUBKEY, TaskListPubkeys, "confirm")

process_delete_client_list ==
    /\ Dispatched("DELETE", "client")
    /\ confirm_needed(args)
    /\ RunSql(LIST_CLIENT, TaskListClients, "confirm")

process_delete_delegation_list ==
    /\ Dispatched("DELETE", "delegation")
    /\ confirm_needed(args)
    /\ RunSql(LIST_DELEGATION, TaskListDelegations, "confirm")

\* A gate that takes a failed read for a decline.
confirm_delete_step_err_declines ==
    /\ pc = "confirm"
    /\ \/ \E input \in Responses :
            /\ trace' = trace \o <<[ev |-> "prompt"],
                                   [ev |-> "read", ok |-> TRUE, line |-> input]>>
            /\ IF confirm_delete(input)
               THEN /\ pc' = "delete"
                    /\ UNCHANGED <<exit_code, panic_msg>>
               ELSE Return
       \/ \E e \in ReadErrors :
            /\ trace' = trace \o <<[ev |-> "prompt"],
                                   [ev |-> "read", ok |-> FALSE, line |-> <<>>]>>
            /\ Return
    /\ UNCHANGED <<args, env, resolved>>

\* confirm_delete and the caller's return when it is false.
confirm_delete_step ==
    /\ pc = "confirm"
    /\ \/ \E input \in Responses :
            /\ trace' = trace \o <<[ev |-> "prompt"],
                                   [ev |-> "read", ok |-> TRUE, line |-> input]>>
            /\ IF confirm_delete(input)
               THEN /\ pc' = "delete"
                    /\ UNCHANGED <<exit_code, panic_msg>>
               ELSE Return
       \/ \E e \in ReadErrors :
            /\ trace' = trace \o <<[ev |-> "prompt"],
                                   [ev |-> "read", ok |-> FALSE, line |-> <<>>]>>
            /\ Panic(ReadErrHead \o e)
    /\ UNCHANGED <<args, env, resolved>>

\* process_delete_*, last part: construct the command and run it.
DeleteReady(res) ==
    /\ args.operation = "DELETE"
    /\ args.resource = res
    /\ \/ pc = "delete"
       \/ pc = "dispatch" /\ ~confirm_needed(args)

process_delete_pubkey ==
    /\ DeleteReady("pubkey")
    /\ RunSql(DELETE_PUBKEY, TaskDeletePubkeys, "done")

process_delete_client ==
    /\ DeleteReady("client")
    /\ RunSql(DELETE_CLIENT, TaskDeleteClients, "done")

process_delete_delegation ==
    /\ DeleteReady("delegation")
    /\ RunSql(DELETE_DELEGATION, TaskDeleteDelegations, "done")

Next ==
    \/ check_db_file
    \/ process_list_pubkey
    \/ process_list_client
    \/ process_list_delegation
    \/ process_delete_pubkey_list
    \/ process_delete_client_list
    \/ process_delete_delegation_list
    \/ confirm_delete_step
    \/ process_delete_pubkey
    \/ process_delete_client
    \/ process_delete_delegation

Spec == Init /\ [][Next]_vars

(***************************************************************************)
(*              The path resolver on its own (get_absolute_path)           *)
(***************************************************************************)
PathEnvs ==
    [home : {None, Some(HomeDir)},
     vars : {[v \in VarNames |-> IF v = "$DBDIR" THEN d ELSE None] :
                d \in {None, Some(<<"/", "var", "db">>), Some(<<"data">>)}},
     cwd : {Err, Ok(WorkDir), Ok(<<"/", "srv", BadByte>>)},
     files : {{}}]

PathInputs ==
    { DefaultDbPath, <<"tms.db">>, <<"/", "var", "tms.db">>,
      <<"..", "db", ".", "tms.db">>, <<"/", "opt", "..", "..", "tms.db">>,
      <<"$DBDIR", "tms.db">>, <<"db", "$DBDIR", "tms.db">>,
      <<"$UNDEF", "tms.db">>, <<"~", "$UNDEF">> }

DefaultArgs(path) ==
    [operation |-> "LIST", resource |-> "pubkey", dbpath |-> path,
     json_off |-> FALSE, echo_off |-> FALSE, header_off |-> FALSE,
     limit |-> 0, confirm_delete_off |-> FALSE, sqlwhere |-> None]

PathInit ==
    /\ args \in {DefaultArgs(p) : p \in PathInputs}
    /\ env \in PathEnvs
    /\ pc = "resolve"
    /\ trace = <<>>
    /\ exit_code = <<>>
    /\ panic_msg = <<>>
    /\ resolved = <<>>

\* One call of get_absolute_path.
resolve_path ==
    /\ pc = "resolve"
    /\ resolved' = get_absolute_path(args.dbpath, env)
    /\ pc' = "resolved"
    /\ UNCHANGED <<args, env, trace, exit_code, panic_msg>>

PathNext == resolve_path

PathSpec == PathInit /\ [][PathNext]_vars

(***************************************************************************)
(*                     Vocabulary of the properties                        *)
(***************************************************************************)
SelectFrom == <<"S","E","L","E","C","T"," ","*"," ","F","R","O","M"," ">>
DeleteFrom == <<"D","E","L","E","T","E"," ","F","R","O","M"," ">>

TableName(res) ==
    IF res = "pubkey" THEN <<"p","u","b","k","e","y","s">>
    ELSE IF res = "client" THEN <<"c","l","i","e","n","t","s">>
    ELSE <<"d","e","l","e","g","a","t","i","o","n","s">>

\* The mapping table of statement prefixes.
TablePrefix(op, res) ==
    (IF op = "LIST" THEN SelectFrom ELSE DeleteFrom) \o TableName(res) \o <<" ">>

IsPrefix(p, s) == Len(p) <= Len(s) /\ SubSeq(s, 1, Len(p)) = p
DropFirst(s, n) == SubSeq(s, n + 1, Len(s))
Range(s) == {s[i] : i \in 1..Len(s)}

DigitValue(c) == (CHOOSE i \in 1..10 : DigitChars[i] = c) - 1

RECURSIVE DecimalValue(_)
DecimalValue(ds) ==
    IF Len(ds) = 0 THEN 0
    ELSE 10 * DecimalValue(SubSeq(ds, 1, Len(ds) - 1)) + DigitValue(ds[Len(ds)])

\* ds is the decimal representation of n > 0.
IsDecimalOf(ds, n) ==
    /\ Len(ds) > 0
    /\ Len(ds) <= 10
    /\ \A i \in 1..Len(ds) : ds[i] \in Range(DigitChars)
    /\ ds[1] # "0"
    /\ DecimalValue(ds) = n

Execs == {i \in 1..Len(trace) : trace[i].ev = "exec"}
Reads == {i \in 1..Len(trace) : trace[i].ev = "read"}
Prompts == {i \in 1..Len(trace) : trace[i].ev = "prompt"}

SqlOf(i) == trace[i].argv[Len(trace[i].argv)]
DbPathOf(i) == trace[i].argv[Len(trace[i].argv) - 1]
Succeeded(i) == trace[i].out.kind = "exit" /\ trace[i].out.code = 0

Deletes == {i \in Execs : IsPrefix(DeleteFrom, SqlOf(i))}
Lists == {i \in Execs : IsPrefix(SelectFrom, SqlOf(i))}

Exited == pc \in {"done", "panicked"}
Affirmative(line) == Len(line) > 0 /\ line[1] \in {"y", "Y"}

WhereText == IF args.sqlwhere.some THEN args.sqlwhere.val ELSE <<>>

\* The statement the i-th event of a run carries: a LIST run and the preview
\* of a DELETE run carry a LIST statement.
StmtOp(i) ==
    IF args.operation = "DELETE" /\ (args.confirm_delete_off \/ i > 1)
    THEN "DELETE" ELSE "LIST"

\* str::trim
IsSpace(c) == c \in {" ", "\t", "\n", "\r"}
RECURSIVE TrimStart(_)
TrimStart(s) == IF Len(s) > 0 /\ IsSpace(s[1]) THEN TrimStart(Tail(s)) ELSE s
RECURSIVE TrimEnd(_)
TrimEnd(s) ==
    IF Len(s) > 0 /\ IsSpace(s[Len(s)]) THEN TrimEnd(SubSeq(s, 1, Len(s) - 1)) ELSE s
Trim(s) == TrimEnd(TrimStart(s))

(***************************************************************************)
(*                              Properties                                 *)
(***************************************************************************)

\* C1: in a DELETE run with confirmation whose preview succeeded and whose
\* response was read, a response starting with y or Y (so "y", "Y", "yes")
\* leads to the DELETE statement: the run is about to invoke it, or has
\* invoked it right after the response; any other response ("n", "no", the
\* empty line, ...) ends the run with status 0, the response being the last
\* event and no DELETE statement invoked.
C1_ConfirmationDecides ==
    \A i \in Reads :
        trace[i].ok =>
            IF Affirmative(trace[i].line)
            THEN \/ pc = "delete" /\ Deletes = {} /\ i = Len(trace)
                 \/ Exited /\ Deletes = {i + 1} /\ Len(trace) = i + 1
            ELSE /\ pc = "done"
                 /\ exit_code = <<0>>
                 /\ Deletes = {}
                 /\ i = Len(trace)

C1_Witness ==
    /\ pc = "done"
    /\ exit_code = <<0>>
    /\ \E i \in Reads : trace[i].ok /\ trace[i].line = <<"n","o","\n">>
    /\ Lists # {}
    /\ Deletes = {}

\* C2: a DELETE run with --confirm-delete-off has no preview LIST, no prompt
\* and no read: its only event is the invocation of the DELETE statement made
\* of the prefix, the WHERE clause and the limit, and a run that got past the
\* database check makes that invocation.
C2_ConfirmOffDeletesDirectly ==
    (args.operation = "DELETE" /\ args.confirm_delete_off) =>
        /\ Len(trace) <= 1
        /\ \A i \in 1..Len(trace) :
              /\ trace[i].ev = "exec"
              /\ SqlOf(i) = TablePrefix("DELETE", args.resource) \o WhereText
                            \o (IF args.limit > 0
                                THEN LimitKeyword \o to_string(args.limit) ELSE <<>>)
        /\ Lists = {} /\ Prompts = {} /\ Reads = {}
        /\ (pc = "done" => Len(trace) = 1)
        /\ pc # "confirm"

C2_Witness ==
    /\ args.operation = "DELETE"
    /\ args.confirm_delete_off
    /\ args.resource = "client"
    /\ args.sqlwhere = Some(Where1)
    /\ pc = "done"
    /\ Deletes = {1}

\* C3: when no regular file exists at the resolved database path the run
\* panics (non-zero status) without any external invocation; and no
\* invocation ever names a database file that does not exist.
C3_NoInvocationWithoutDbFile ==
    /\ (get_absolute_path(args.dbpath, env) \notin env.files) =>
          /\ trace = <<>>
          /\ pc \in {"main", "panicked"}
          /\ (pc = "panicked" => exit_code # <<>> /\ exit_code[1] # 0)
    /\ \A i \in Execs : DbPathOf(i) \in env.files

C3_Witness ==
    /\ pc = "panicked"
    /\ trace = <<>>
    /\ exit_code = <<PanicExit>>
    /\ resolved = WorkDb
    /\ env.files = {HomeDb}

\* C4 as stated: the deletion proceeds exactly when the response, trimmed of
\* surrounding whitespace and case-folded, begins with y.
C4_TrimmedResponseDecides ==
    \A i \in Reads :
        trace[i].ok =>
            ((pc = "delete" \/ Deletes # {})
                <=> starts_with(to_lowercase(Trim(trace[i].line)), "y"))

\* C4 amended: the deletion proceeds exactly when the response as read, not
\* trimmed, begins with y or Y; a response that has whitespace in front of
\* the y is a decline.
C4_UntrimmedResponseDecides ==
    \A i \in Reads :
        trace[i].ok =>
            /\ (pc = "delete" \/ Deletes # {}) <=> Affirmative(trace[i].line)
            /\ (Len(trace[i].line) > 0 /\ IsSpace(trace[i].line[1]))
                  => (pc = "done" /\ Deletes = {})

C4_Witness ==
    /\ pc = "done"
    /\ Deletes = {}
    /\ \E i \in Reads : trace[i].ok /\ trace[i].line = <<" ","y","\n">>

\* C5: every statement handed to the external client is the prefix of the
\* mapping table for its (operation, resource) pair, then the WHERE clause
\* verbatim when there is one, then " LIMIT " and the decimal representation
\* of the limit exactly when the limit is positive, and nothing else.
C5_StatementShape ==
    \A i \in Execs :
        LET sql == SqlOf(i)
            pre == TablePrefix(StmtOp(i), args.resource)
            rest == DropFirst(sql, Len(pre) + Len(WhereText))
        IN  /\ IsPrefix(pre, sql)
            /\ IsPrefix(WhereText, DropFirst(sql, Len(pre)))
            /\ IF args.limit > 0
               THEN /\ IsPrefix(LimitKeyword, rest)
                    /\ IsDecimalOf(DropFirst(rest, Len(LimitKeyword)), args.limit)
               ELSE rest = <<>>

C5_Witness ==
    /\ args.limit > 9
    /\ args.sqlwhere = Some(Where2)
    /\ args.operation = "DELETE"
    /\ Deletes # {}
    /\ Lists # {}

\* C6 as stated: a child that exits with a non-zero status makes the run
\* panic with the task label, ": " and the text the child wrote to its
\* standard error when that text is available (valid UTF-8), or else the
\* unknown-error message with the executable and the exit status; a child
\* that cannot be launched makes the run panic with a message that starts
\* with the task label; the failed invocation is the last event of the run.
C6_FailureMessage ==
    \A i \in Execs :
        ~Succeeded(i) =>
            /\ pc = "panicked"
            /\ exit_code = <<PanicExit>>
            /\ i = Len(trace)
            /\ IsPrefix(trace[i].task \o ColonSpace, panic_msg)
            /\ trace[i].out.kind = "exit" =>
                  panic_msg = trace[i].task \o ColonSpace \o
                      (IF from_utf8_ok(trace[i].out.wrote)
                       THEN trace[i].out.wrote
                       ELSE EmsgHead \o SQLITE3 \o EmsgMid
                            \o status_to_string(trace[i].out.code))

\* C7: every invocation is sqlite3, then those of -json, -header, -echo (in
\* this order) whose off-toggle is false, then the resolved database path,
\* then the SQL statement; with no toggle set all three flags are there.
FlagRank(f) == IF f = FlagJson THEN 1 ELSE IF f = FlagHeader THEN 2 ELSE 3

C7_InvocationShape ==
    \A i \in Execs :
        LET argv == trace[i].argv
            n == Len(argv)
            flags == SubSeq(argv, 2, n - 2)
        IN  /\ n >= 3
            /\ argv[1] = SQLITE3
            /\ Range(flags) \subseteq {FlagJson, FlagHeader, FlagEcho}
            /\ (FlagJson \in Range(flags)) <=> ~args.json_off
            /\ (FlagHeader \in Range(flags)) <=> ~args.header_off
            /\ (FlagEcho \in Range(flags)) <=> ~args.echo_off
            /\ \A j \in 1..Len(flags) : \A k \in 1..Len(flags) :
                  j < k => FlagRank(flags[j]) < FlagRank(flags[k])
            /\ argv[n - 1] = resolved
            /\ (args.dbpath = DefaultDbPath => argv[n - 1] = HomeDb)
            /\ (args.dbpath = <<"tms.db">> => argv[n - 1] = WorkDb)
            /\ IsPrefix(TablePrefix(StmtOp(i), args.resource), argv[n])
            /\ (~args.json_off /\ ~args.header_off /\ ~args.echo_off)
                  => flags = <<FlagJson, FlagHeader, FlagEcho>>

C7_Witness ==
    /\ args.json_off /\ ~args.header_off /\ ~args.echo_off
    /\ \E i \in Execs :
          trace[i].argv = <<SQLITE3, FlagHeader, FlagEcho, HomeDb,
                            LIST_PUBKEY \o LimitKeyword \o <<"5">> >>

\* C8: a failed read of the confirmation response makes the run panic with
\* a non-zero status right away: the read is the last event, no DELETE
\* statement is invoked, and the run is not a clean exit.
C8_ReadFailureIsFatal ==
    \A i \in Reads :
        ~trace[i].ok =>
            /\ pc = "panicked"
            /\ exit_code # <<>> /\ exit_code[1] # 0
            /\ IsPrefix(ReadErrHead, panic_msg)
            /\ i = Len(trace)
            /\ Deletes = {}

C8_Witness ==
    /\ pc = "panicked"
    /\ args.operation = "DELETE"
    /\ \E i \in Reads : ~trace[i].ok
    /\ Lists # {}

RefersToUndefined(p, e) == \E i \in 1..Len(p) : p[i] \in VarNames /\ ~e.vars[p[i]].some

\* The expanded path made absolute: it starts at the root, has no ".", "..",
\* variable reference or expanded ~ left, and keeps the last component.
IsResolutionOf(r, p, e) ==
    /\ r = absolutize(shellexpand_full(p, e).val, e).val
    /\ IsAbsolute(r)
    /\ \A i \in 1..Len(r) :
          /\ r[i] \notin {".", ".."} \cup VarNames
          /\ (e.home.some => r[i] # "~")
          /\ (i > 1 => r[i] # "/")
    /\ (p[Len(p)] \notin {".", "..", "~"} \cup VarNames => r[Len(r)] = p[Len(p)])

\* The expansion fails, or the path cannot be made absolute.
TransformationFails(p, e) ==
    \/ RefersToUndefined(p, e)
    \/ ~shellexpand_full(p, e).ok
    \/ ~absolutize(shellexpand_full(p, e).val, e).ok
    \/ (~IsAbsolute(shellexpand_full(p, e).val) /\ ~e.cwd.ok)

\* C9 as stated: get_absolute_path always returns: the input unchanged when
\* the expansion or the absolutization fails, and otherwise the expanded,
\* absolutized path.
C9_ResolverFallsBack ==
    /\ (pc = "resolve" => ENABLED resolve_path)
    /\ pc = "resolved" =>
          IF TransformationFails(args.dbpath, env)
          THEN resolved = args.dbpath
          ELSE IsResolutionOf(resolved, args.dbpath, env)

\* C9 amended: get_absolute_path always returns: the input unchanged when
\* the expansion fails, when the absolutization fails, or when the absolute
\* path is not valid Unicode and so cannot be given back as a string; and
\* otherwise the expanded, absolutized path.
C9_ResolverFallsBackOrNotUnicode ==
    /\ (pc = "resolve" => ENABLED resolve_path)
    /\ pc = "resolved" =>
          IF \/ TransformationFails(args.dbpath, env)
             \/ BadByte \in Range(absolutize(shellexpand_full(args.dbpath, env).val, env).val)
          THEN resolved = args.dbpath
          ELSE IsResolutionOf(resolved, args.dbpath, env)

C9_Witness ==
    /\ pc = "resolved"
    /\ args.dbpath = <<"$UNDEF", "tms.db">>
    /\ env.cwd.ok
    /\ resolved = <<"$UNDEF", "tms.db">>

\* C10: with confirmation enabled an invocation of a DELETE statement comes
\* after a preview LIST on the same table with the same WHERE clause and
\* LIMIT suffix that exited with status zero, then the prompt, then an
\* affirmative response; a failed preview is the only event of its run (no
\* prompt, no read, no DELETE); a run invokes at most one DELETE statement,
\* and a LIST run none.
C10_DeleteFollowsPreviewAndConsent ==
    /\ ~args.confirm_delete_off =>
          \A d \in Deletes :
              \E l \in Lists : \E q \in Prompts : \E r \in Reads :
                  /\ l < q /\ q < r /\ r < d
                  /\ Succeeded(l)
                  /\ IsPrefix(TablePrefix("LIST", args.resource), SqlOf(l))
                  /\ IsPrefix(TablePrefix("DELETE", args.resource), SqlOf(d))
                  /\ DropFirst(SqlOf(l), Len(SelectFrom))
                        = DropFirst(SqlOf(d), Len(DeleteFrom))
                  /\ DbPathOf(l) = DbPathOf(d)
                  /\ trace[r].ok
                  /\ Affirmative(trace[r].line)
    /\ \A l \in Lists :
          ~Succeeded(l) =>
              /\ Len(trace) = 1
              /\ pc = "panicked"
    /\ Cardinality(Deletes) <= 1
    /\ args.operation = "LIST" => Deletes = {}

C10_Witness ==
    /\ ~args.confirm_delete_off
    /\ args.operation = "DELETE"
    /\ pc = "done"
    /\ Len(trace) = 4
    /\ Deletes = {4}
    /\ args.limit > 0
    /\ args.sqlwhere.some

====
